---- MODULE Spec2Model ----
(* A model of maxmind-server (src/main.py, src/config.py): the refresh      *)
(* scheduler that downloads and installs the GeoLite2 database, and the     *)
(* HTTP handlers that look an address up in it.                             *)
(*                                                                          *)
(* Everything runs on one asyncio event loop: a handler or a stretch of     *)
(* download_database between two awaits is one atomic step.                 *)
EXTENDS Integers, Sequences, FiniteSets, TLC

(***************************************************************************)
(* Bounds of the model.                                                    *)
(***************************************************************************)
\* members of a downloaded archive
MaxMembers == 2
\* size of a file, in write chunks
FileChunks == 2
\* entries of a record's subdivisions
MaxSubdivisions == 1

\* config.py: UPDATE_INTERVAL
UPDATE_INTERVAL == 86400

(***************************************************************************)
(* Strings are sequences of one-character strings.                         *)
(***************************************************************************)
Digit == {"0", "1", "2", "3", "4", "5", "6", "7", "8", "9"}
HexDigit == Digit \cup {"a", "b", "c", "d", "e", "f", "A", "B", "C", "D", "E", "F"}

DigitVal(c) ==
    CASE c = "0" -> 0 [] c = "1" -> 1 [] c = "2" -> 2 [] c = "3" -> 3
      [] c = "4" -> 4 [] c = "5" -> 5 [] c = "6" -> 6 [] c = "7" -> 7
      [] c = "8" -> 8 [] c = "9" -> 9 [] OTHER -> 0

RECURSIVE DecVal(_)
DecVal(s) == IF s = <<>> THEN 0
             ELSE 10 * DecVal(SubSeq(s, 1, Len(s) - 1)) + DigitVal(s[Len(s)])

\* str.split(sep): the pieces of s between the occurrences of sep
RECURSIVE Split(_, _)
Split(s, sep) ==
    IF \A i \in 1..Len(s) : s[i] # sep THEN <<s>>
    ELSE LET i == CHOOSE j \in 1..Len(s) :
                      s[j] = sep /\ \A k \in 1..(j - 1) : s[k] # sep
         IN <<SubSeq(s, 1, i - 1)>> \o Split(SubSeq(s, i + 1, Len(s)), sep)

Has(s, c) == \E i \in 1..Len(s) : s[i] = c


(***************************************************************************)
(* validate_ip: ipaddress.ip_address(ip) accepts the string as an IPv4     *)
(* address, else as an IPv6 address, else raises ValueError.               *)
(***************************************************************************)
\* IPv4Address._parse_octet: ASCII decimal digits, at most 3 of them, no
\* leading zero, at most 255
ParseOctetOk(o) ==
    /\ Len(o) >= 1
    /\ \A i \in 1..Len(o) : o[i] \in Digit
    /\ Len(o) <= 3
    /\ ~(Len(o) > 1 /\ o[1] = "0")
    /\ DecVal(o) <= 255

\* IPv4Address._ip_int_from_string: exactly four octets between dots
IsIPv4(s) ==
    /\ s # <<>>
    /\ ~Has(s, "/")
    /\ LET octets == Split(s, ".")
       IN /\ Len(octets) = 4
          /\ \A i \in 1..4 : ParseOctetOk(octets[i])

\* IPv6Address._parse_hextet: 1 to 4 hexadecimal digits
ParseHextetOk(h) ==
    /\ Len(h) >= 1
    /\ Len(h) <= 4
    /\ \A i \in 1..Len(h) : h[i] \in HexDigit

\* IPv6Address._ip_int_from_string, after an IPv4 suffix was replaced by
\* two hextets: parts is the list of the pieces between colons
IPv6PartsOk(parts) ==
    LET n == Len(parts)
        skips == {i \in 2..(n - 1) : parts[i] = <<>>}
    IN /\ n <= 9
       /\ Cardinality(skips) <= 1
       /\ IF skips # {}
          THEN LET skip_index == (CHOOSE i \in skips : TRUE) - 1
                   hi0 == skip_index
                   lo0 == n - skip_index - 1
                   parts_hi == IF parts[1] = <<>> THEN hi0 - 1 ELSE hi0
                   parts_lo == IF parts[n] = <<>> THEN lo0 - 1 ELSE lo0
               IN /\ (parts[1] = <<>> => parts_hi = 0)
                  /\ (parts[n] = <<>> => parts_lo = 0)
                  /\ 8 - (parts_hi + parts_lo) >= 1
                  /\ \A i \in 1..parts_hi : ParseHextetOk(parts[i])
                  /\ \A i \in (n - parts_lo + 1)..n : ParseHextetOk(parts[i])
          ELSE /\ n = 8
               /\ \A i \in 1..n : ParseHextetOk(parts[i])

\* IPv6Address._ip_int_from_string: at least three pieces; a last piece
\* holding a dot is an IPv4 address and counts as two hextets
IsIPv6(s) ==
    /\ s # <<>>
    /\ ~Has(s, "/")
    /\ ~Has(s, "%")
    /\ LET parts == Split(s, ":")
           n == Len(parts)
       IN /\ n >= 3
          /\ IF Has(parts[n], ".")
             THEN /\ IsIPv4(parts[n])
                  /\ IPv6PartsOk(SubSeq(parts, 1, n - 1) \o <<<<"0">>, <<"0">>>>)
             ELSE IPv6PartsOk(parts)

validate_ip_accepts_all(ip) == TRUE

validate_ip(ip) == IsIPv4(ip) \/ IsIPv6(ip)

(***************************************************************************)
(* The address strings requests carry.                                     *)
(***************************************************************************)
ValidAddresses ==
    { <<"8", ".", "8", ".", "8", ".", "8">>,
      <<"f", "e", "8", "0", ":", ":", "1">> }

database == <<"d", "a", "t", "a", "b", "a", "s", "e">>

InvalidAddresses ==
    { <<"n", "o", "t", "-", "a", "n", "-", "i", "p">>,
      <<"2", "5", "6", ".", "1", ".", "1", ".", "1">>,
      <<"1", ":", ":", "2", ":", ":", "3">>,
      database }

Addresses == ValidAddresses \cup InvalidAddresses

\* the values of a request header; <<>> when the header is not sent
HeaderValues == {<<>>, <<"1", ".", "2", ".", "3", ".", "4">>}

\* the transport-layer peer addresses
Peers == {<<"8", ".", "8", ".", "8", ".", "8">>}

(***************************************************************************)
(* Values of the reader's record and of the response.  Every value is a    *)
(* string: None is Python's None; "0", "" and "false" are the values       *)
(* Python takes as false.                                                  *)
(***************************************************************************)
None == "None"

\* Python's truth test of a value
Truthy(v) == v \notin {None, "0", "", "false"}

\* bool(x)
Bool(v) == IF Truthy(v) THEN "true" ELSE "false"

\* a coordinate can be 0.0; an identifier or a radius is never 0
CoordValues == {None, "0", "7"}
NumValues == {None, "7"}
StrValues == {None, "x"}
BoolValues == {"false", "true"}

GroupNames == {"location", "city", "postal", "continent", "country",
               "registered_country", "traits"}

\* the fields of each group of the response (main.py 148-181)
Fields(g) ==
    CASE g = "location" -> {"latitude", "longitude", "accuracy_radius", "time_zone"}
      [] g = "city" -> {"name", "geoname_id"}
      [] g = "postal" -> {"code"}
      [] g = "continent" -> {"code", "geoname_id", "name"}
      [] g = "country" -> {"iso_code", "geoname_id", "name", "is_in_european_union"}
      [] g = "registered_country" ->
             {"iso_code", "geoname_id", "name", "is_in_european_union"}
      [] g = "traits" -> {"is_anonymous_proxy", "is_satellite_provider"}

\* the fields the code reads behind hasattr(...) and converts with bool(...)
BoolFields == {"is_in_european_union", "is_anonymous_proxy", "is_satellite_provider"}

\* the values the reader can hold in a field
FieldValues(f) ==
    IF f \in BoolFields THEN BoolValues
    ELSE IF f \in {"latitude", "longitude"} THEN CoordValues
    ELSE IF f \in {"accuracy_radius", "geoname_id"} THEN NumValues
    ELSE StrValues

SubdivisionFields == {"iso_code", "geoname_id", "name"}

\* a dict is a function from its keys; a value of the top-level dict is
\* tagged with its Python type
EmptyDict == [k \in {} |-> None]
StrV(x) == [t |-> "str", s |-> x, d |-> EmptyDict, l |-> <<>>]
DictV(x) == [t |-> "dict", s |-> "", d |-> x, l |-> <<>>]
ListV(x) == [t |-> "list", s |-> "", d |-> EmptyDict, l |-> x]

\* {k: v for k, v in d.items() if keep(k)}
Restrict(d, keys) == [k \in keys |-> d[k]]

\* one field of a group, main.py 149-180:
\*   conv(obj.f) if obj and obj.f else None            (ordinary fields)
\*   bool(obj.f) if obj and hasattr(obj, f) else None  (the bool fields)
\* the reader's record objects are always true and always have the attribute
FieldOut(f, v) ==
    IF f \in BoolFields THEN Bool(v)
    ELSE IF Truthy(v) THEN v ELSE None

\* one appended subdivisions entry, main.py 187-191
SubdivisionOut(sd) ==
    [f \in SubdivisionFields |-> IF Truthy(sd[f]) THEN sd[f] ELSE None]

\* main.py 146-191: the result before pruning
BuildResult(ip, rec) ==
    [k \in {"ip", "subdivisions"} \cup GroupNames |->
        IF k = "ip" THEN StrV(ip)
        ELSE IF k = "subdivisions"
             THEN ListV([i \in 1..Len(rec.subdivisions) |->
                            SubdivisionOut(rec.subdivisions[i])])
             ELSE DictV([f \in Fields(k) |-> FieldOut(f, rec.groups[k][f])])]

\* main.py 194: v is not None and (not isinstance(v, dict) or any(v.values()))
KeepTopLevel(v) ==
    v.t # "dict" \/ \E f \in DOMAIN v.d : Truthy(v.d[f])

\* main.py 194-199: prune the top level, then each kept dict's None fields,
\* deleting a dict left empty
Prune(result) ==
    LET top == Restrict(result, {k \in DOMAIN result : KeepTopLevel(result[k])})
        inner == [k \in DOMAIN top |->
                    IF top[k].t = "dict"
                    THEN DictV(Restrict(top[k].d,
                               {f \in DOMAIN top[k].d : top[k].d[f] # None}))
                    ELSE top[k]]
    IN Restrict(inner, {k \in DOMAIN inner :
                           ~(inner[k].t = "dict" /\ DOMAIN inner[k].d = {})})

(***************************************************************************)
(* The records the database reader returns from reader.city(ip).           *)
(***************************************************************************)
\* a group whose ordinary fields are all None (kind "empty") or all set
BaseGroup(kind, g) ==
    [f \in Fields(g) |->
        IF f \in BoolFields THEN (IF kind = "empty" THEN "false" ELSE "true")
        ELSE IF kind = "empty" THEN None
             ELSE IF "x" \in FieldValues(f) THEN "x" ELSE "7"]

GroupAssignments(g) ==
    {a \in [Fields(g) -> CoordValues \cup StrValues \cup BoolValues] :
        \A f \in Fields(g) : a[f] \in FieldValues(f)}

SubdivisionEntries ==
    {e \in [SubdivisionFields -> NumValues \cup StrValues] :
        \A f \in SubdivisionFields : e[f] \in FieldValues(f)}

SubdivisionSeqs == UNION {[1..n -> SubdivisionEntries] : n \in 0..MaxSubdivisions}

BaseRecord(kind) ==
    [groups |-> [g \in GroupNames |-> BaseGroup(kind, g)], subdivisions |-> <<>>]

\* a group and a choice of the values of its fields
GroupChoices == UNION {{<<g, a>> : a \in GroupAssignments(g)} : g \in GroupNames}

\* every record that differs from a base record in one group, with any
\* subdivisions
ShapeRecords ==
    {[groups |-> [BaseRecord(kind).groups EXCEPT ![ga[1]] = ga[2]],
      subdivisions |-> sd] :
        kind \in {"empty", "full"}, ga \in GroupChoices, sd \in SubdivisionSeqs}

\* the records the reader returns in the model of the whole server
CoreRecords ==
    {[BaseRecord("full") EXCEPT
         !.subdivisions = <<[iso_code |-> "x", geoname_id |-> "7", name |-> "x"]>>]}

(***************************************************************************)
(* Files.  A file holds the first len chunks of its content; it is whole   *)
(* when len = FileChunks.  The database file's content is member number    *)
(* `member` of the archive it was copied from.                             *)
(***************************************************************************)
NoFile == [exists |-> FALSE, member |-> 0, len |-> 0]
DbFile(m, n) == [exists |-> TRUE, member |-> m, len |-> n]
Whole(f) == f.exists /\ f.len = FileChunks

\* the body of the provider's response: gz says whether it is a readable
\* gzip tar, members are its members' name suffixes
NoBody == [gz |-> FALSE, members |-> <<>>]
MemberKinds == {"mmdb", "txt"}
Bodies ==
    {[gz |-> TRUE, members |-> ms] :
        ms \in UNION {[1..n -> MemberKinds] : n \in 0..MaxMembers}}
    \cup {NoBody}

NoArchive == [exists |-> FALSE, body |-> NoBody, len |-> 0]
ArchiveFile(b, n) == [exists |-> TRUE, body |-> b, len |-> n]

\* files left on disk by an earlier run of the server
OldDb == DbFile(1, FileChunks)
OldArchive == ArchiveFile([gz |-> TRUE, members |-> <<"mmdb">>], FileChunks)

(***************************************************************************)
(* State.                                                                  *)
(***************************************************************************)
VARIABLES
    licenseKey,      \* config.py: whether MAXMIND_LICENSE_KEY is set
    db,              \* the file at DB_PATH
    archive,         \* the file at assets/GeoLite2-City.tar.gz
    schedPc,         \* where update_scheduler / download_database stands
    resp,            \* the body of the provider's response in flight
    sleepArg,        \* the argument of the pending asyncio.sleep
    lastOutcome,     \* how the last refresh attempt ended (what was logged)
    everSucceeded,   \* history: a refresh has returned True
    lastReq          \* the request served in the last step and its response
                     \* (NoRequest after a step of the scheduler)

vars == <<licenseKey, db, archive, schedPc, resp, sleepArg, lastOutcome,
          everSucceeded, lastReq>>

schedVars == <<licenseKey, db, archive, schedPc, resp, sleepArg, lastOutcome,
               everSucceeded>>

(***************************************************************************)
(* The HTTP handlers.  None of them awaits between reading the disk and    *)
(* answering, so each request is one step.                                 *)
(***************************************************************************)
NoCity == [found |-> FALSE, rec |-> BaseRecord("empty")]
Found(rec) == [found |-> TRUE, rec |-> rec]

Response(h, ip, st, detail, media, opened, city, body) ==
    [handler |-> h, addr |-> ip, status |-> st, detail |-> detail,
     media |-> media, readerOpened |-> opened, rec |-> city.rec, body |-> body]

NoRequest ==
    [handler |-> "none", addr |-> <<>>, status |-> 0, detail |-> "",
     media |-> "", readerOpened |-> FALSE, rec |-> BaseRecord("empty"),
     body |-> EmptyDict]

\* main.py 203-204: except Exception as e: raise HTTPException(400, str(e));
\* the HTTPExceptions raised at 138 and 141 are Exceptions and are caught too
ExceptStatus(e) == 400

\* validate_ip on every address of the model, computed once
Validated == [ip \in Addresses \cup HeaderValues \cup Peers |-> validate_ip(ip)]

\* main.py 129-204: city is what reader.city(ip) gives on a whole database
lookup_ip(h, ip, city) ==
    IF ~Validated[ip]
    THEN Response(h, ip, ExceptStatus(400), "Invalid IP address", "json",
                  FALSE, NoCity, EmptyDict)
    ELSE IF ~db.exists
    THEN Response(h, ip, ExceptStatus(503), "Database not available", "json",
                  FALSE, NoCity, EmptyDict)
    ELSE IF ~Whole(db)
    THEN Response(h, ip, ExceptStatus(500), "InvalidDatabaseError", "json",
                  TRUE, NoCity, EmptyDict)
    ELSE IF ~city.found
    THEN Response(h, ip, ExceptStatus(500), "AddressNotFoundError", "json",
                  TRUE, NoCity, EmptyDict)
    ELSE Response(h, ip, 200, "", "json", TRUE, city,
                  Prune(BuildResult(ip, city.rec)))

\* main.py 111-126: X-Real-IP, else X-Forwarded-For, else the peer address
lookup_client_ip(realIp, forwardedFor, peer, city) ==
    lookup_ip("lookup_client_ip",
              IF realIp # <<>> THEN realIp
              ELSE IF forwardedFor # <<>> THEN forwardedFor ELSE peer,
              city)

\* main.py 207-216
download_database_archive ==
    IF ~archive.exists
    THEN Response("download_database_archive", database, 404,
                  "Database archive not found", "json", FALSE, NoCity, EmptyDict)
    ELSE Response("download_database_archive", database, 200, "",
                  "application/gzip", FALSE, NoCity, EmptyDict)

\* the routes in the order the decorators register them (main.py 111, 129,
\* 207); a path is the text after the leading slash and holds no slash
Routes ==
    <<[path |-> "/", handler |-> "lookup_client_ip"],
      [path |-> "/{ip_address}", handler |-> "lookup_ip"],
      [path |-> "/database", handler |-> "download_database_archive"]>>

RouteMatches(route, path) ==
    CASE route.path = "/" -> path = <<>>
      [] route.path = "/{ip_address}" -> path # <<>>
      [] route.path = "/database" -> path = database

\* the router hands the request to the first route that matches
Dispatch(path) ==
    LET hits == {i \in 1..Len(Routes) : RouteMatches(Routes[i], path)}
    IN Routes[CHOOSE i \in hits : \A j \in hits : i <= j].handler

\* GET /<path> with the given headers from the given peer.  The server
\* accepts requests after lifespan created the scheduler task (main.py 45),
\* whose first stretch has then run.
Request(path, realIp, forwardedFor, peer, city) ==
    /\ lastOutcome # "none"
    /\ lastReq' =
         CASE Dispatch(path) = "lookup_client_ip" ->
                  lookup_client_ip(realIp, forwardedFor, peer, city)
           [] Dispatch(path) = "lookup_ip" -> lookup_ip("lookup_ip", path, city)
           [] Dispatch(path) = "download_database_archive" ->
                  download_database_archive
    /\ UNCHANGED schedVars

(***************************************************************************)
(* update_scheduler and download_database, one action per stretch of code  *)
(* between awaits.                                                         *)
(***************************************************************************)
Statuses == {200, 403, 500}

OnExceptionPropagates == "dead"

\* main.py 84-86 and 92-94: any Exception is logged, download_database
\* returns False and update_scheduler goes on to asyncio.sleep
OnException == "sleep"

\* the attempt ends: True is returned after main.py 81, False after 85
Finish(outcome) ==
    /\ schedPc' = IF outcome = "ok" THEN "sleep" ELSE OnException
    /\ lastOutcome' = outcome
    /\ sleepArg' = UPDATE_INTERVAL
    /\ resp' = NoBody
    /\ everSucceeded' = (everSucceeded \/ outcome = "ok")
    /\ lastReq' = NoRequest

FindMmdbLast(members) ==
    LET hits == {i \in 1..Len(members) : members[i] = "mmdb"}
    IN IF hits = {} THEN 0 ELSE CHOOSE i \in hits : \A j \in hits : j <= i

\* main.py 72: next((m for m in tar.getmembers() if m.name.endswith('.mmdb')),
\* None); 0 stands for None
FindMmdb(members) ==
    LET hits == {i \in 1..Len(members) : members[i] = "mmdb"}
    IN IF hits = {} THEN 0 ELSE CHOOSE i \in hits : \A j \in hits : i <= j

\* main.py 56-61: the license key is checked first
Start ==
    /\ schedPc = "start"
    /\ IF ~licenseKey
       THEN Finish("ConfigError")
       ELSE /\ schedPc' = "get"
            /\ lastOutcome' = "running"
            /\ lastReq' = NoRequest
            /\ UNCHANGED <<resp, sleepArg, everSucceeded>>
    /\ UNCHANGED <<licenseKey, db, archive>>

\* main.py 63-66: the provider answers with a status line and headers
HttpGet(status) ==
    /\ schedPc = "get"
    /\ IF status # 200
       THEN Finish("DownloadError")
       ELSE /\ schedPc' = "open"
            /\ lastReq' = NoRequest
            /\ UNCHANGED <<resp, lastOutcome, sleepArg, everSucceeded>>
    /\ UNCHANGED <<licenseKey, db, archive>>

\* main.py 63-64: the connection fails (aiohttp.ClientError)
HttpGetFails ==
    /\ schedPc = "get"
    /\ Finish("DownloadError")
    /\ UNCHANGED <<licenseKey, db, archive>>

\* main.py 68: aiofiles.open(db_archive, 'wb') creates or truncates the
\* archive at its canonical path, or fails with OSError
OpenArchive(ok) ==
    /\ schedPc = "open"
    /\ IF ok
       THEN /\ archive' = ArchiveFile(NoBody, 0)
            /\ schedPc' = "read"
            /\ lastReq' = NoRequest
            /\ UNCHANGED <<resp, lastOutcome, sleepArg, everSucceeded>>
       ELSE /\ Finish("IOError")
            /\ UNCHANGED archive
    /\ UNCHANGED <<licenseKey, db>>

\* main.py 69: await response.read() returns the body, or the connection
\* breaks
ReadBody(ok, body) ==
    /\ schedPc = "read"
    /\ IF ok
       THEN /\ schedPc' = "write"
            /\ resp' = body
            /\ lastReq' = NoRequest
            /\ UNCHANGED <<lastOutcome, sleepArg, everSucceeded>>
       ELSE Finish("DownloadError")
    /\ UNCHANGED <<licenseKey, db, archive>>

\* main.py 69: await f.write(...) writes n chunks of the body, all of them
\* unless the write fails
WriteArchive(n) ==
    /\ schedPc = "write"
    /\ archive' = IF n = 0 THEN ArchiveFile(NoBody, 0) ELSE ArchiveFile(resp, n)
    /\ IF n = FileChunks
       THEN /\ schedPc' = "extract"
            /\ lastReq' = NoRequest
            /\ UNCHANGED <<resp, lastOutcome, sleepArg, everSucceeded>>
       ELSE Finish("IOError")
    /\ UNCHANGED <<licenseKey, db>>

\* main.py 71-74: tarfile.open raises on a file that is no gzip tar;
\* ValueError when no member ends in .mmdb
ExtractRejects ==
    /\ schedPc = "extract"
    /\ ~resp.gz \/ FindMmdb(resp.members) = 0
    /\ Finish("ArchiveFormatError")
    /\ UNCHANGED <<licenseKey, db, archive>>

\* main.py 76-82, one stretch without an await: tar.extract to /tmp, then
\* shutil.copy2(temp_db, DB_PATH) opens DB_PATH for writing, which truncates
\* it, and copies chunk by chunk, then os.remove(temp_db).
\*   n = -1: tar.extract or the open of DB_PATH fails
\*   0 <= n < FileChunks: the copy fails after n chunks
\*   n = FileChunks: the copy completes; removed says whether os.remove did
Install(n, removed) ==
    /\ schedPc = "extract"
    /\ resp.gz
    /\ FindMmdb(resp.members) # 0
    /\ db' = IF n = -1 THEN db ELSE DbFile(FindMmdb(resp.members), n)
    /\ Finish(IF n = FileChunks /\ removed THEN "ok" ELSE "IOError")
    /\ UNCHANGED <<licenseKey, archive>>

\* main.py 94: asyncio.sleep(UPDATE_INTERVAL) returns and the loop goes round
Tick ==
    /\ schedPc = "sleep"
    /\ schedPc' = "start"
    /\ sleepArg' = 0
    /\ lastReq' = NoRequest
    /\ UNCHANGED <<licenseKey, db, archive, resp, lastOutcome, everSucceeded>>

SchedulerStep ==
    \/ Start
    \/ \E status \in Statuses : HttpGet(status)
    \/ HttpGetFails
    \/ \E ok \in BOOLEAN : OpenArchive(ok)
    \/ \E ok \in BOOLEAN, body \in Bodies : ReadBody(ok, body)
    \/ \E n \in 0..FileChunks : WriteArchive(n)
    \/ ExtractRejects
    \/ \E n \in -1..FileChunks, removed \in BOOLEAN : Install(n, removed)
    \/ Tick

Cities == {NoCity} \cup {Found(rec) : rec \in CoreRecords}

AnyRequest ==
    \/ \E realIp \in HeaderValues, forwardedFor \in HeaderValues, peer \in Peers,
          city \in Cities :
           Request(<<>>, realIp, forwardedFor, peer, city)
    \/ \E path \in Addresses, peer \in Peers, city \in Cities :
           Request(path, <<>>, <<>>, peer, city)

\* the server starts with or without files of an earlier run on disk;
\* lifespan has created the scheduler task
Init ==
    /\ licenseKey \in BOOLEAN
    /\ db \in {NoFile, OldDb}
    /\ archive \in {NoArchive, OldArchive}
    /\ schedPc = "start"
    /\ resp = NoBody
    /\ sleepArg = 0
    /\ lastOutcome = "none"
    /\ everSucceeded = FALSE
    /\ lastReq = NoRequest

Next == SchedulerStep \/ AnyRequest

Spec == Init /\ [][Next]_vars

\* every await of the scheduler task returns: the provider answers or the
\* client times out, the disk writes end, the sleep ends
FairSpec == Spec /\ WF_vars(SchedulerStep)

(***************************************************************************)
(* The response shaping alone: one lookup of each record on a server whose *)
(* database is present and whose first refresh found no license key.       *)
(***************************************************************************)
Pending(ip, rec) == [NoRequest EXCEPT !.handler = "pending", !.addr = ip, !.rec = rec]

ShapeInit ==
    /\ licenseKey = FALSE
    /\ db = OldDb
    /\ archive = OldArchive
    /\ schedPc = "sleep"
    /\ resp = NoBody
    /\ sleepArg = UPDATE_INTERVAL
    /\ lastOutcome = "ConfigError"
    /\ everSucceeded = FALSE
    /\ lastReq \in {Pending(ip, rec) : ip \in ValidAddresses, rec \in ShapeRecords}

ShapeLookup ==
    /\ lastReq.handler = "pending"
    /\ \E peer \in Peers :
         Request(lastReq.addr, <<>>, <<>>, peer, Found(lastReq.rec))

ShapeSpec == ShapeInit /\ [][ShapeLookup]_vars

(***************************************************************************)
(* Properties.                                                             *)
(***************************************************************************)
Lookups == {"lookup_ip", "lookup_client_ip"}
ErrorOutcomes == {"ConfigError", "DownloadError", "ArchiveFormatError", "IOError"}

MmdbIndices(members) == {i \in 1..Len(members) : members[i] = "mmdb"}

\* C1: a lookup that opens the database never finds a partially written or
\* truncated file at the database path: the file it opens is whole.
C1_ReaderSeesWholeFile ==
    (lastReq.handler \in Lookups /\ lastReq.readerOpened) => Whole(db)

\* C2: a lookup of a valid address while no file exists at the database
\* path is answered with status 503.
C2_NoDatabaseIs503 ==
    (lastReq.handler \in Lookups /\ lastReq.addr \in ValidAddresses /\ ~db.exists)
        => lastReq.status = 503

\* C3: GET /database is handled by the archive endpoint, and answers 404
\* while no refresh has succeeded and 200 with application/gzip afterwards.
C3_DatabaseRoute ==
    (lastReq.handler \in {"lookup_ip", "download_database_archive"}
        /\ lastReq.addr = database)
        => /\ lastReq.handler = "download_database_archive"
           /\ IF everSucceeded
              THEN lastReq.status = 200 /\ lastReq.media = "application/gzip"
              ELSE lastReq.status = 404

\* C4: a refresh attempt that ends in an error leaves the previously active
\* database file as it was: a whole database file changes only in the step
\* that completes a successful refresh.
C4_FailedRefreshKeepsDatabase ==
    [][(Whole(db) /\ db' # db) => lastOutcome' = "ok"]_vars

\* C5: the archive served from the canonical path is replaced only once the
\* downloaded archive has been found to extract: a whole archive changes
\* only in a step taken after the database member of the downloaded archive
\* was found.
C5_ArchiveReplacedAfterExtraction ==
    [][(Whole(archive) /\ archive' # archive) =>
          (schedPc = "extract" /\ resp.gz /\ MmdbIndices(resp.members) # {})]_vars

\* C6: whatever the refresh attempts end with, the scheduler sleeps the
\* fixed interval after each and then starts another attempt, for ever: no
\* outcome stops the loop.
C6_SchedulerAlwaysRetries ==
    /\ [](lastOutcome \in ErrorOutcomes \cup {"ok"} =>
             schedPc \in {"sleep", "start"})
    /\ [](schedPc = "sleep" => sleepArg = UPDATE_INTERVAL)
    /\ []<><<Start>>_vars

\* C6 witness: an attempt has ended in an error and the scheduler is about
\* to start the next one.
C6_Witness == schedPc = "start" /\ lastOutcome \in ErrorOutcomes

\* C7: a lookup of an address that is no valid IPv4 or IPv6 address is
\* answered with status 400 and the database reader is not opened, with or
\* without a database file.
C7_InvalidInputNeverReachesReader ==
    (lastReq.handler \in Lookups /\ lastReq.addr \in InvalidAddresses)
        => lastReq.status = 400 /\ ~lastReq.readerOpened

\* C7 witness: an invalid address was looked up while a whole database file
\* was present.
C7_Witness ==
    /\ lastReq.handler = "lookup_ip"
    /\ lastReq.addr \in InvalidAddresses \ {database}
    /\ Whole(db)
    /\ lastReq.status = 400

C9_NoAbsentValues ==
    (lastReq.handler \in Lookups /\ lastReq.status = 200)
        => LET body == lastReq.body
           IN /\ \A k \in DOMAIN body :
                   /\ body[k].t = "str" => body[k].s # None
                   /\ body[k].t = "dict" =>
                        /\ DOMAIN body[k].d # {}
                        /\ \A f \in DOMAIN body[k].d : body[k].d[f] # None
                   /\ body[k].t = "list" =>
                        \A i \in 1..Len(body[k].l) :
                           \A f \in DOMAIN body[k].l[i] : body[k].l[i][f] # None
              /\ lastReq.rec.subdivisions = <<>> => "subdivisions" \notin DOMAIN body

\* C10: in the body of a successful lookup a group is left out exactly when
\* the record holds none of its fields, and a kept group holds every field
\* the record holds, false values included.
C10_GroupOmittedIffAllAbsent ==
    (lastReq.handler \in Lookups /\ lastReq.status = 200)
        => \A g \in GroupNames :
              LET present == {f \in Fields(g) : lastReq.rec.groups[g][f] # None}
              IN /\ g \in DOMAIN lastReq.body <=> present # {}
                 /\ g \in DOMAIN lastReq.body => present \subseteq DOMAIN lastReq.body[g].d

=============================================================================
